---- MODULE Spec2Model ----
(***************************************************************************)
(* ParallelAgentManager of src/src/agent_manager.py: bounded-concurrency   *)
(* dispatch of chunks to an LM worker (process_chunks_sync on a            *)
(* ThreadPoolExecutor, process_chunks_async in batches on the manager's    *)
(* pool), the per-chunk worker (_process_single_chunk) and the aggregator  *)
(* (aggregate_results); and the activation router (context_router), whose  *)
(* decision procedure is taken from the specification.                     *)
(*                                                                         *)
(* Python values are tagged records: None, str, int, dict (an insertion-   *)
(* ordered sequence of key/value items) and list.  Python strings are TLA+ *)
(* strings, so str(), slicing and f-strings are computed, not abstracted.  *)
(***************************************************************************)
EXTENDS Integers, Sequences, FiniteSets, TLC

\* ------------------------------------------------------------------ bounds
\* Longest chunk list handed to one dispatch.
MaxChunks == 3
\* Largest max_concurrent a manager is constructed with.
MaxConcurrent == 2
\* Longest Result list handed to aggregate_results on its own.
MaxResults == 3
\* Largest estimatedTokens of a descriptor and largest tokenThreshold.
MaxTokens == 2
\* Largest size of an input, in KiB, and largest fileSizeKbThreshold.
MaxKb == 1
\* Largest filesCount of a descriptor and largest fileCountThreshold.
MaxFiles == 2
\* How many LM-worker calls of one run may outlast the per-task timeout.
MaxSlow == 1
\* Longest chunk list of a dispatch when the manager serves two of them.
MaxPairChunks == 2
\* Longest chunk list of each of two overlapping dispatches on distinct inputs.
MaxApartChunks == 1

\* ------------------------------------------------------- program constants
\* future.result(timeout=60), in seconds.
TaskTimeoutSec == 60
\* str(task.content)[:10000]
PromptCap == 10000

\* ----------------------------------------------------------- Python values
None == [type |-> "none"]

PyStr(s) == [type |-> "str", s |-> s]

PyInt(n) == [type |-> "int", n |-> n]

\* items: sequence of [k |-> <TLA+ string>, v |-> <Python value>], keys unique
PyDict(items) == [type |-> "dict", items |-> items]

PyList(items) == [type |-> "list", items |-> items]

\* isinstance(v, dict)
IsDict(v) == v.type = "dict"

\* isinstance(v, str)
IsStr(v) == v.type = "str"

\* bool(v) for the values of the model
Truthy(v) ==
    CASE v.type = "none" -> FALSE
      [] v.type = "str"  -> v.s # ""
      [] v.type = "int"  -> v.n # 0
      [] OTHER           -> v.items # <<>>

\* ", ".join(parts)
RECURSIVE JoinWith(_, _)
JoinWith(sep, parts) ==
    IF parts = <<>> THEN ""
    ELSE IF Len(parts) = 1 THEN parts[1]
    ELSE parts[1] \o sep \o JoinWith(sep, Tail(parts))

\* repr(v) and str(v); the strings of the model hold no quote or escape.
RECURSIVE PyRepr(_)
PyRepr(v) ==
    CASE v.type = "none" -> "None"
      [] v.type = "str"  -> "'" \o v.s \o "'"
      [] v.type = "int"  -> ToString(v.n)
      [] v.type = "dict" ->
           "{" \o JoinWith(", ", [i \in 1..Len(v.items) |->
                    "'" \o v.items[i].k \o "': " \o PyRepr(v.items[i].v)]) \o "}"
      [] OTHER ->
           "[" \o JoinWith(", ", [i \in 1..Len(v.items) |-> PyRepr(v.items[i])]) \o "]"

PyStrOf(v) == IF v.type = "str" THEN v.s ELSE PyRepr(v)

\* s[:n]
Prefix(s, n) == SubSeq(s, 1, IF Len(s) < n THEN Len(s) ELSE n)

\* d.get(key, default) on a dict value
DictGet(d, key, default) ==
    LET hits == {i \in 1..Len(d.items) : d.items[i].k = key}
    IN  IF hits = {} THEN default ELSE d.items[CHOOSE i \in hits : TRUE].v

\* --------------------------------------------------------------- the inputs
\* {'content': 'aa'}, {'k': 1} (no 'content' key) and the bare string 'abc'.
ContentChunk == PyDict(<<[k |-> "content", v |-> PyStr("aa")]>>)

BareChunk == PyDict(<<[k |-> "k", v |-> PyInt(1)]>>)

StrChunk == PyStr("abc")

\* The chunk lists a dispatch is called with: n chunks of the usual form
\* {'content': ...}, or such a list with one chunk replaced by a dict without
\* 'content' or by a chunk that is no dict.
PlainList(n) == [i \in 1..n |-> ContentChunk]

ChunkLists ==
    {PlainList(n) : n \in 0..MaxChunks}
    \cup UNION {{[PlainList(n) EXCEPT ![k] = odd] :
                    k \in 1..n, odd \in {BareChunk, StrChunk}} : n \in 1..MaxChunks}

Queries == {None, PyStr("q")}

\* The longest chunk list of a dispatch followed to its end.
MaxFairChunks == 2

\* Chunk lists as the strategies emit them, {'id': ..., 'content': ...}: ids
\* counted up from a first id, or counted down to it.
MaxIdChunks == 2

MaxFirstId == 1

IdChunk(id, text) ==
    PyDict(<<[k |-> "id", v |-> PyInt(id)], [k |-> "content", v |-> PyStr(text)]>>)

IdChunkLists ==
    UNION {{[p \in 1..n |-> IdChunk(IF up THEN first + p - 1 ELSE first + n - p, "aa")] :
               first \in 0..MaxFirstId, up \in BOOLEAN} : n \in 0..MaxIdChunks}

\* What a call of the LM worker can end in: it returns its answer, a string
\* that depends on the prompt alone, or it raises an Exception.
Outcomes(call) ==
    {[kind |-> "return", value |-> PyStr("re: " \o call.prompt)],
     [kind |-> "raise", msg |-> "boom"]}

Disp == {1, 2}

\* ------------------------------------------------------------------- state
VARIABLES
    mode,            \* how the caller uses the manager: "single" | "rerun" |
                     \* "overlap"; "invalid": one dispatch, the worker may return None;
                     \* "async": one process_chunks_async call;
                     \* "apart": two overlapping dispatches on distinct inputs;
                     \* "aggregate": aggregate_results alone;
                     \* "router": should_activate_rlm alone;
                     \* "strategy": get_strategy alone;
                     \* "prompt": _build_prompt alone;
                     \* "fair": one dispatch whose threads and LM calls make progress;
                     \* "ids": one dispatch over chunks that carry an 'id';
                     \* "cleanup": process_chunks_async around cleanup()
    max_concurrent,  \* self.max_concurrent
    llm_query_fn,    \* TRUE iff an LM worker is configured
    lm,              \* the worker's behaviour met so far: {[prompt, model, outcome]}
    pc,              \* per dispatch: "idle" | "submitting" | "collecting" |
                     \* "returned" | "raised", for process_chunks_async also
                     \* "awaiting" | "cancelling" | "cancelled"
    chunks,          \* per dispatch: the chunk list passed in
    query,           \* per dispatch: the query passed in
    chunk_tasks,     \* per dispatch: the ChunkTask list
    futures,         \* per dispatch: one entry per task, the state of its work
                     \* item and Future: "unsubmitted" | "created" | "pending" |
                     \* "dequeued" | "taken" | "running" | "finished" | "cancelled"
    results,         \* per dispatch: the results list
    invoked,         \* per dispatch: the (prompt, model) calls made on the LM worker
    slow,            \* number of calls that outlasted the timeout so far
    reordered,       \* per dispatch (history): the final sort moved a Result
    agg_results,     \* the Result list a caller passes to aggregate_results
    reply,           \* what aggregate_results returned for it (None before the call)
    reply_parts,     \* the replies for a prefix and the rest of it (None before)
    batch,           \* per dispatch: the batch process_chunks_async is awaiting (0: none)
    descriptor,      \* the ContextDescriptor handed to the router
    config,          \* the router's configuration
    decision,        \* what should_activate_rlm returned (None before the call)
    requested,       \* the strategy tag a caller hands to get_strategy
    strategy_obj,    \* what get_strategy returned for it (None before the call)
    prompt_task,     \* the ChunkTask a caller hands to _build_prompt
    prompt,          \* what _build_prompt returned for it (None before the call)
    shutdown,        \* self._executor has been shut down (cleanup)
    late,            \* per dispatch: the call was made after cleanup()
    check_cancel     \* per dispatch: the tasks whose cancellation the event loop
                     \* has still to pass on to the executor's Future

\* The state of the activation router.
routing == <<descriptor, config, decision, requested, strategy_obj>>

\* The state of a caller of _build_prompt on its own.
prompting == <<prompt_task, prompt>>

\* The state process_chunks_sync and the pool threads leave alone.
side == <<agg_results, reply, reply_parts, batch, routing, prompting, shutdown,
          late, check_cancel>>

vars == <<mode, max_concurrent, llm_query_fn, lm, pc, chunks, query,
          chunk_tasks, futures, results, invoked, slow, reordered, side>>

\* What a call of the LM worker can end in: as Outcomes, and for a worker that
\* does not keep to `-> str` also in returning None.
WorkerOutcomes(call) ==
    IF mode = "invalid"
    THEN Outcomes(call) \cup {[kind |-> "return", value |-> None]}
    ELSE Outcomes(call)

\* ------------------------------------------------------------ pure methods
\* ChunkTask(id=i, content=chunk.get('content', chunk), task_type="query",
\*           query=query, metadata=chunk if isinstance(chunk, dict) else {})
ChunkTask(i, chunk, q) ==
    [id        |-> i,
     content   |-> DictGet(chunk, "content", chunk),
     task_type |-> "query",
     query     |-> q,
     metadata  |-> IF IsDict(chunk) THEN chunk ELSE PyDict(<<>>)]

\* chunk.get raises AttributeError on a chunk that is no dict
BuildRaises(cs) == \E i \in 1..Len(cs) : ~IsDict(cs[i])

BuildTasks(cs, q) == [i \in 1..Len(cs) |-> ChunkTask(i - 1, cs[i], q)]

_select_model(task) ==
    IF task.task_type = "extraction" THEN "haiku"
    ELSE IF task.task_type = "analysis" THEN "sonnet"
    ELSE IF task.task_type = "synthesis" THEN "sonnet"
    ELSE "haiku"

\* Faulty variant: the payload is not cut.
BuildPromptUncapped(task) ==
    IF Truthy(task.query)
    THEN "Process this chunk of data to answer the following query:\n\nQuery: "
         \o PyStrOf(task.query) \o "\n\nChunk " \o ToString(task.id) \o ":\n"
         \o PyStrOf(task.content)
         \o "\n\nProvide a concise response focusing only on information relevant to the query."
    ELSE "Extract key information from this chunk:\n\nChunk "
         \o ToString(task.id) \o ":\n"
         \o PyStrOf(task.content)
         \o "\n\nProvide a structured summary of the main points."

_build_prompt(task) ==
    IF Truthy(task.query)
    THEN "Process this chunk of data to answer the following query:\n\nQuery: "
         \o PyStrOf(task.query) \o "\n\nChunk " \o ToString(task.id) \o ":\n"
         \o Prefix(PyStrOf(task.content), PromptCap)
         \o "\n\nProvide a concise response focusing only on information relevant to the query."
    ELSE "Extract key information from this chunk:\n\nChunk "
         \o ToString(task.id) \o ":\n"
         \o Prefix(PyStrOf(task.content), PromptCap)
         \o "\n\nProvide a structured summary of the main points."

Result(chunk_id, content, ms, model_used, error) ==
    [chunk_id |-> chunk_id, content |-> content, processing_time_ms |-> ms,
     model_used |-> model_used, error |-> error]

\* Faulty variant: the except branch loses the task id (placeholder id -1).
ProcessSingleChunkLosesId(task, configured, outcome, ms) ==
    IF ~configured
    THEN Result(task.id,
                PyStr("[Processed chunk " \o ToString(task.id) \o ": "
                      \o ToString(Len(PyStrOf(task.content))) \o " chars]"),
                ms, _select_model(task), None)
    ELSE IF outcome.kind = "return"
    THEN Result(task.id, outcome.value, ms, _select_model(task), None)
    ELSE Result(-1, None, ms, "haiku", PyStr(outcome.msg))

\* Faulty variant: the except branch swallows the exception (error stays None).
ProcessSingleChunkSwallows(task, configured, outcome, ms) ==
    IF ~configured
    THEN Result(task.id,
                PyStr("[Processed chunk " \o ToString(task.id) \o ": "
                      \o ToString(Len(PyStrOf(task.content))) \o " chars]"),
                ms, _select_model(task), None)
    ELSE IF outcome.kind = "return"
    THEN Result(task.id, outcome.value, ms, _select_model(task), None)
    ELSE Result(task.id, None, ms, "haiku", None)

\* The Result _process_single_chunk builds once the LM call (if any) has
\* ended in `outcome` after `ms` milliseconds.
_process_single_chunk(task, configured, outcome, ms) ==
    IF ~configured
    THEN Result(task.id,
                PyStr("[Processed chunk " \o ToString(task.id) \o ": "
                      \o ToString(Len(PyStrOf(task.content))) \o " chars]"),
                ms, _select_model(task), None)
    ELSE IF outcome.kind = "return"
    THEN Result(task.id, outcome.value, ms, _select_model(task), None)
    ELSE Result(task.id, None, ms, "haiku", PyStr(outcome.msg))

\* Faulty variant: the sort is left out.
KeepOrder(rs) == rs

\* Faulty variant: the sort key is processing_time_ms.
RECURSIVE InsertByTime(_, _)
InsertByTime(r, sorted) ==
    IF sorted = <<>> THEN <<r>>
    ELSE IF r.processing_time_ms < Head(sorted).processing_time_ms THEN <<r>> \o sorted
    ELSE <<Head(sorted)>> \o InsertByTime(r, Tail(sorted))

RECURSIVE SortByTime(_)
SortByTime(rs) ==
    IF rs = <<>> THEN <<>>
    ELSE InsertByTime(rs[Len(rs)], SortByTime(SubSeq(rs, 1, Len(rs) - 1)))

\* results.sort(key=lambda r: r.chunk_id): a stable sort
RECURSIVE InsertByChunkId(_, _)
InsertByChunkId(r, sorted) ==
    IF sorted = <<>> THEN <<r>>
    ELSE IF r.chunk_id < Head(sorted).chunk_id THEN <<r>> \o sorted
    ELSE <<Head(sorted)>> \o InsertByChunkId(r, Tail(sorted))

RECURSIVE SortByChunkId(_)
SortByChunkId(rs) ==
    IF rs = <<>> THEN <<>>
    ELSE InsertByChunkId(rs[Len(rs)], SortByChunkId(SubSeq(rs, 1, Len(rs) - 1)))

\* Faulty variant: a key already present keeps its value (setdefault).
RECURSIVE DictUpdateKeepsFirst(_, _)
DictUpdateKeepsFirst(items, other) ==
    IF other = <<>> THEN items
    ELSE LET e    == Head(other)
             hits == {i \in 1..Len(items) : items[i].k = e.k}
         IN  DictUpdateKeepsFirst(IF hits = {} THEN Append(items, e) ELSE items,
                                  Tail(other))

\* dict.update(other) on insertion-ordered items: a key already present keeps
\* its place and takes the new value, a new key is appended.
RECURSIVE DictUpdate(_, _)
DictUpdate(items, other) ==
    IF other = <<>> THEN items
    ELSE LET e    == Head(other)
             hits == {i \in 1..Len(items) : items[i].k = e.k}
             put  == IF hits = {} THEN Append(items, e)
                     ELSE [i \in 1..Len(items) |-> IF i \in hits THEN e ELSE items[i]]
         IN  DictUpdate(put, Tail(other))

\* aggregated_content = {}; for r in successful: aggregated_content.update(r.content)
RECURSIVE MergeDicts(_, _)
MergeDicts(acc, rs) ==
    IF rs = <<>> THEN acc
    ELSE MergeDicts(IF IsDict(Head(rs).content)
                    THEN DictUpdate(acc, Head(rs).content.items) ELSE acc,
                    Tail(rs))

\* sum(r.processing_time_ms for r in results)
RECURSIVE SumTimes(_)
SumTimes(rs) ==
    IF rs = <<>> THEN 0 ELSE Head(rs).processing_time_ms + SumTimes(Tail(rs))

\* Faulty variant: `if r.content is not None` in place of `if r.error is None`.
IsSuccessfulByContent(r) == r.content # None

IsSuccessful(r) == r.error = None

\* Faulty variant: `if r.error` in place of `if r.error is not None`.
IsFailedTruthy(r) == Truthy(r.error)

IsFailed(r) == r.error # None

\* Faulty variant: the content type is read off successful[0], which raises
\* IndexError when no Result is successful.
AggregateByFirst(rs) ==
    LET successful == SelectSeq(rs, IsSuccessful)
        failed     == SelectSeq(rs, IsFailed)
    IN  IF successful = <<>>
        THEN [raised |-> "IndexError"]
        ELSE [aggregated |->
                 IF IsStr(successful[1].content)
                 THEN PyStr(JoinWith("\n\n", [i \in 1..Len(successful) |->
                          "[Chunk " \o ToString(successful[i].chunk_id) \o "]:\n"
                          \o PyStrOf(successful[i].content)]))
                 ELSE IF IsDict(successful[1].content)
                 THEN PyDict(MergeDicts(<<>>, successful))
                 ELSE PyList([i \in 1..Len(successful) |-> successful[i].content]),
              chunks_processed         |-> Len(successful),
              chunks_failed            |-> Len(failed),
              total_processing_time_ms |-> SumTimes(rs),
              errors |-> [i \in 1..Len(failed) |->
                            [chunk |-> failed[i].chunk_id, error |-> failed[i].error]]]

\* Faulty variant: the fallback lists the contents of all Results.
AggregateListsAll(rs) ==
    LET successful == SelectSeq(rs, IsSuccessful)
        failed     == SelectSeq(rs, IsFailed)
        aggregated_content ==
            IF \A i \in 1..Len(successful) : IsStr(successful[i].content)
            THEN PyStr(JoinWith("\n\n", [i \in 1..Len(successful) |->
                     "[Chunk " \o ToString(successful[i].chunk_id) \o "]:\n"
                     \o successful[i].content.s]))
            ELSE IF \A i \in 1..Len(successful) : IsDict(successful[i].content)
            THEN PyDict(MergeDicts(<<>>, successful))
            ELSE PyList([i \in 1..Len(rs) |-> rs[i].content])
    IN  [aggregated               |-> aggregated_content,
         chunks_processed         |-> Len(successful),
         chunks_failed            |-> Len(failed),
         total_processing_time_ms |-> SumTimes(rs),
         errors |-> [i \in 1..Len(failed) |->
                       [chunk |-> failed[i].chunk_id, error |-> failed[i].error]]]

aggregate_results(rs) ==
    LET successful == SelectSeq(rs, IsSuccessful)
        failed     == SelectSeq(rs, IsFailed)
        aggregated_content ==
            IF \A i \in 1..Len(successful) : IsStr(successful[i].content)
            THEN PyStr(JoinWith("\n\n", [i \in 1..Len(successful) |->
                     "[Chunk " \o ToString(successful[i].chunk_id) \o "]:\n"
                     \o successful[i].content.s]))
            ELSE IF \A i \in 1..Len(successful) : IsDict(successful[i].content)
            THEN PyDict(MergeDicts(<<>>, successful))
            ELSE PyList([i \in 1..Len(successful) |-> successful[i].content])
    IN  [aggregated               |-> aggregated_content,
         chunks_processed         |-> Len(successful),
         chunks_failed            |-> Len(failed),
         total_processing_time_ms |-> SumTimes(rs),
         errors |-> [i \in 1..Len(failed) |->
                       [chunk |-> failed[i].chunk_id, error |-> failed[i].error]]]

\* ------------------------------------------------------- executor and futures
\* A Future of concurrent.futures as process_chunks_sync sees it.
NewFuture ==
    [state |-> "pending", overdue |-> FALSE, result |-> None,
     exception |-> None, collected |-> FALSE]

\* A task that has been built and not yet submitted: no Future, no work item
\* (in process_chunks_async: no asyncio task) yet.
FutureTask == [NewFuture EXCEPT !.state = "unsubmitted"]

Tasks(d) == 1..Len(futures[d])

\* The tasks of dispatch d that executor.submit has not been called for.
Unsubmitted(d) == {i \in Tasks(d) : futures[d][i].state = "unsubmitted"}

Pending(d) == {i \in Tasks(d) : futures[d][i].state = "pending"}

\* The tasks of dispatch d whose work item a pool thread has got from the
\* queue and not yet started to run: the Future is still PENDING.
Dequeued(d) == {i \in Tasks(d) : futures[d][i].state = "dequeued"}

\* The tasks of dispatch d a pool thread runs _process_single_chunk for (the
\* Future is RUNNING) and whose LM call (if any) it has not made yet.
Taken(d) == {i \in Tasks(d) : futures[d][i].state = "taken"}

\* The tasks of dispatch d whose LM call is in flight.
Running(d) == {i \in Tasks(d) : futures[d][i].state = "running"}

\* The tasks of dispatch d a worker thread is busy with.
Busy(d) == Dequeued(d) \cup Taken(d) \cup Running(d)

\* Faulty variant: a thread that has run a work item takes no other one.
WorkerNeverReleased(d) ==
    Cardinality({i \in Tasks(d) :
                    futures[d][i].state \in {"dequeued", "taken", "running", "finished"}})
        < max_concurrent

\* Faulty variant: a pool without an upper bound on its threads.
WorkerAlwaysFree(d) == TRUE

\* ThreadPoolExecutor(max_workers=self.max_concurrent): a thread is free to
\* take the next work item iff fewer than max_workers threads hold one.
WorkerFree(d) == Cardinality(Busy(d)) < max_concurrent

\* The executor's work queue is FIFO: the next item is the oldest pending one.
NextPending(d) == CHOOSE i \in Pending(d) : \A j \in Pending(d) : i <= j

\* LM-worker calls in flight on behalf of dispatch d / of the manager.
InFlight(d) == IF llm_query_fn THEN Cardinality(Running(d)) ELSE 0

InFlightManager == InFlight(1) + InFlight(2)

\* self.llm_query_fn(prompt, model=model): the call as the worker sees it
LmCall(task) == [prompt |-> _build_prompt(task), model |-> _select_model(task)]

\* Faulty variant: the call is made a second time.
InvokeTwice(calls, task) == Append(Append(calls, LmCall(task)), LmCall(task))

\* The calls made so far, with the one for `task` added.
Invoke(calls, task) == Append(calls, LmCall(task))

\* The worker is deterministic: a call it has answered before ends the same way.
Known(call) == {e \in lm : e.prompt = call.prompt /\ e.model = call.model}

\* wall-clock time of a task, in ms: beyond the timeout iff the call outlasted it
Elapsed(fut) == IF fut.overdue THEN TaskTimeoutSec * 1000 + 1 ELSE 0

\* Faulty variant: a failed task's Result is not appended.
AppendedDropsFailed(rs, fut) ==
    IF fut.exception = None
    THEN IF fut.result.error = None THEN Append(rs, fut.result) ELSE rs
    ELSE rs

\* One turn of `for future in as_completed(futures)`: future.result(timeout=60)
\* on a finished future, the Result appended; the placeholder Result when
\* future.result raises.
Appended(rs, fut) ==
    IF fut.exception = None
    THEN Append(rs, fut.result)
    ELSE Append(rs, Result(-1, None, 0, "haiku", fut.exception))

\* ----------------------------------------------------------------- actions
\* Which dispatch the caller may start: the first; a second one overlapping
\* the first; or a second one after the first has ended.
CallAllowed(d) ==
    \/ d = 1
    \/ mode \in {"overlap", "apart"} /\ pc[1] \in {"submitting", "collecting"}
    \/ mode = "rerun" /\ pc[1] \in {"returned", "raised"}

\* The arguments of the call: any chunk list and query; when the caller
\* repeats a dispatch ("rerun"), the arguments of the first one again; shorter
\* lists when the manager serves two dispatches; for dispatches on distinct
\* inputs ("apart"), arguments for the second that differ from the first's.
Arguments(d) ==
    IF mode = "rerun" /\ d = 2
    THEN {<<chunks[1], query[1]>>}
    ELSE IF mode = "apart"
    THEN ({PlainList(n) : n \in 0..MaxApartChunks} \X Queries)
         \ (IF d = 2 THEN {<<chunks[1], query[1]>>} ELSE {})
    ELSE IF mode \in {"single", "async", "cleanup"}
    THEN ChunkLists \X Queries
    ELSE IF mode = "ids"
    THEN IdChunkLists \X Queries
    ELSE IF mode = "fair"
    THEN {PlainList(n) : n \in 0..MaxFairChunks} \X Queries
    ELSE {cs \in ChunkLists : Len(cs) <= MaxPairChunks} \X Queries

\* process_chunks_sync up to the submit loop: the task list is built (and
\* raises on a non-dict chunk) and the pool is created; no task has been
\* submitted. Without tasks the caller is at as_completed at once.
process_chunks_sync(d) ==
    /\ pc[d] = "idle"
    /\ CallAllowed(d)
    /\ \E args \in Arguments(d) :
       LET cs == args[1]
           q  == args[2]
       IN
         /\ chunks' = [chunks EXCEPT ![d] = cs]
         /\ query' = [query EXCEPT ![d] = q]
         /\ IF BuildRaises(cs)
            THEN /\ pc' = [pc EXCEPT ![d] = "raised"]
                 /\ UNCHANGED <<chunk_tasks, futures>>
            ELSE /\ pc' = [pc EXCEPT ![d] =
                            IF Len(cs) = 0 THEN "collecting" ELSE "submitting"]
                 /\ chunk_tasks' = [chunk_tasks EXCEPT ![d] = BuildTasks(cs, q)]
                 /\ futures' = [futures EXCEPT ![d] = [i \in 1..Len(cs) |-> FutureTask]]
    /\ UNCHANGED <<side, mode, max_concurrent, llm_query_fn, lm, results, invoked, slow,
                   reordered>>

\* One turn of the list comprehension of lines 61-64:
\* executor.submit(self._process_single_chunk, task) for the next task. The
\* pool threads run while the caller is in the loop; after the last submit
\* the caller goes on to as_completed.
submit(d) ==
    /\ pc[d] = "submitting"
    /\ Unsubmitted(d) # {}
    /\ LET i == CHOOSE u \in Unsubmitted(d) : \A v \in Unsubmitted(d) : u <= v
       IN  /\ futures' = [futures EXCEPT ![d][i] = NewFuture]
           /\ pc' = [pc EXCEPT ![d] =
                        IF Unsubmitted(d) = {i} THEN "collecting" ELSE "submitting"]
    /\ UNCHANGED <<side, mode, max_concurrent, llm_query_fn, lm, chunks, query,
                   chunk_tasks, results, invoked, slow, reordered>>

\* A pool thread gets the next work item from the queue: the thread holds
\* the item, the Future is PENDING until the thread runs the item.
WorkerStart(d) ==
    /\ pc[d] \in {"submitting", "collecting"}
    /\ Pending(d) # {}
    /\ WorkerFree(d)
    /\ futures' = [futures EXCEPT ![d][NextPending(d)].state = "dequeued"]
    /\ UNCHANGED <<side, mode, max_concurrent, llm_query_fn, lm, pc, chunks, query,
                   chunk_tasks, results, invoked, slow, reordered>>

\* The thread that holds the work item of task i runs it: the Future is
\* RUNNING from then on, the thread is in _process_single_chunk and has not
\* reached the call of the LM worker. Threads run the items they hold in any
\* order, whatever order they got them in.
WorkerRun(d, i) ==
    /\ i \in Dequeued(d)
    /\ futures' = [futures EXCEPT ![d][i].state = "taken"]
    /\ UNCHANGED <<side, mode, max_concurrent, llm_query_fn, lm, pc, chunks, query,
                   chunk_tasks, results, invoked, slow, reordered>>

\* The thread that took task i has run _process_single_chunk up to the call
\* of the LM worker and makes it: self.llm_query_fn(prompt, model=model).
\* Threads reach the call in any order, whatever order they took the items in.
WorkerCall(d, i) ==
    /\ llm_query_fn
    /\ i \in Taken(d)
    /\ futures' = [futures EXCEPT ![d][i].state = "running"]
    /\ invoked' = [invoked EXCEPT ![d] = Invoke(@, chunk_tasks[d][i])]
    /\ UNCHANGED <<side, mode, max_concurrent, llm_query_fn, lm, pc, chunks, query,
                   chunk_tasks, results, slow, reordered>>

\* The per-task timeout passes while the LM call of task i is still running.
TimeoutElapses(d, i) ==
    /\ llm_query_fn
    /\ i \in Running(d)
    /\ ~futures[d][i].overdue
    /\ slow < MaxSlow
    /\ slow' = slow + 1
    /\ futures' = [futures EXCEPT ![d][i].overdue = TRUE]
    /\ UNCHANGED <<side, mode, max_concurrent, llm_query_fn, lm, pc, chunks, query,
                   chunk_tasks, results, invoked, reordered>>

\* The LM call of task i returns or raises (without an LM worker the thread
\* makes no call); _process_single_chunk builds the Result and the future is
\* finished.
WorkerFinish(d, i) ==
    /\ IF llm_query_fn THEN i \in Running(d) ELSE i \in Taken(d)
    /\ LET task == chunk_tasks[d][i]
           call == LmCall(task)
       IN  \E o \in WorkerOutcomes(call) :
             /\ llm_query_fn /\ Known(call) # {} => o \in {e.outcome : e \in Known(call)}
             /\ ~llm_query_fn => o = CHOOSE x \in Outcomes(call) : TRUE
             /\ lm' = IF llm_query_fn
                      THEN lm \cup {[prompt |-> call.prompt, model |-> call.model, outcome |-> o]}
                      ELSE lm
             /\ futures' = [futures EXCEPT ![d][i] =
                   [@ EXCEPT !.state = "finished",
                             !.result = _process_single_chunk(task, llm_query_fn, o,
                                                              Elapsed(futures[d][i]))]]
    /\ UNCHANGED <<side, mode, max_concurrent, llm_query_fn, pc, chunks, query,
                   chunk_tasks, results, invoked, slow, reordered>>

\* Faulty variant: the results are kept in a list of the manager
\* (self._completed_results), which every dispatch in progress appends to.
AsCompletedShared(d, i) ==
    /\ pc[d] = "collecting"
    /\ i \in Tasks(d)
    /\ futures[d][i].state = "finished"
    /\ ~futures[d][i].collected
    /\ results' = [e \in Disp |->
                      IF pc[e] = "collecting" THEN Appended(results[e], futures[d][i])
                      ELSE results[e]]
    /\ futures' = [futures EXCEPT ![d][i].collected = TRUE]
    /\ UNCHANGED <<side, mode, max_concurrent, llm_query_fn, lm, pc, chunks, query,
                   chunk_tasks, invoked, slow, reordered>>

\* as_completed yields the finished future i; its Result is appended.
AsCompleted(d, i) ==
    /\ pc[d] = "collecting"
    /\ i \in Tasks(d)
    /\ futures[d][i].state = "finished"
    /\ ~futures[d][i].collected
    /\ results' = [results EXCEPT ![d] = Appended(@, futures[d][i])]
    /\ futures' = [futures EXCEPT ![d][i].collected = TRUE]
    /\ UNCHANGED <<side, mode, max_concurrent, llm_query_fn, lm, pc, chunks, query,
                   chunk_tasks, invoked, slow, reordered>>

\* Faulty variant: the list is returned once the futures finished so far have
\* been yielded, without waiting for the others.
SyncReturnEarly(d) ==
    /\ pc[d] = "collecting"
    /\ \A i \in Tasks(d) : futures[d][i].state = "finished" => futures[d][i].collected
    /\ results' = [results EXCEPT ![d] = SortByChunkId(@)]
    /\ reordered' = [reordered EXCEPT ![d] = (results'[d] # results[d])]
    /\ pc' = [pc EXCEPT ![d] = "returned"]
    /\ UNCHANGED <<side, mode, max_concurrent, llm_query_fn, lm, chunks, query,
                   chunk_tasks, futures, invoked, slow>>

\* Every future has been yielded: the pool is shut down, the results are
\* sorted and returned.
SyncReturn(d) ==
    /\ pc[d] = "collecting"
    /\ \A i \in Tasks(d) : futures[d][i].collected
    /\ results' = [results EXCEPT ![d] = SortByChunkId(@)]
    /\ reordered' = [reordered EXCEPT ![d] = (results'[d] # results[d])]
    /\ pc' = [pc EXCEPT ![d] = "returned"]
    /\ UNCHANGED <<side, mode, max_concurrent, llm_query_fn, lm, chunks, query,
                   chunk_tasks, futures, invoked, slow>>

\* ----------------------------------------------------------- specifications
\* ParallelAgentManager(max_concurrent, llm_query_fn), no dispatch started.
Constructed ==
    /\ max_concurrent \in 1..MaxConcurrent
    /\ llm_query_fn \in BOOLEAN
    /\ lm = {}
    /\ pc = [d \in Disp |-> "idle"]
    /\ chunks = [d \in Disp |-> <<>>]
    /\ query = [d \in Disp |-> None]
    /\ chunk_tasks = [d \in Disp |-> <<>>]
    /\ futures = [d \in Disp |-> <<>>]
    /\ results = [d \in Disp |-> <<>>]
    /\ invoked = [d \in Disp |-> <<>>]
    /\ slow = 0
    /\ reordered = [d \in Disp |-> FALSE]
    /\ batch = [d \in Disp |-> 0]
    /\ shutdown = FALSE
    /\ late = [d \in Disp |-> FALSE]
    /\ check_cancel = [d \in Disp |-> {}]

\* No caller of aggregate_results on its own.
NoAggregation ==
    /\ agg_results = <<>>
    /\ reply = None
    /\ reply_parts = None

\* No routing.
NoRouting ==
    /\ descriptor = None
    /\ config = None
    /\ decision = None
    /\ requested = None
    /\ strategy_obj = None

\* No caller of _build_prompt on its own.
NoPrompt ==
    /\ prompt_task = None
    /\ prompt = None

Init == mode = "single" /\ Constructed /\ NoAggregation /\ NoRouting /\ NoPrompt

InitRerun == mode = "rerun" /\ Constructed /\ NoAggregation /\ NoRouting /\ NoPrompt

InitOverlap == mode = "overlap" /\ Constructed /\ NoAggregation /\ NoRouting /\ NoPrompt

InitInvalid == mode = "invalid" /\ Constructed /\ NoAggregation /\ NoRouting /\ NoPrompt

InitApart == mode = "apart" /\ Constructed /\ NoAggregation /\ NoRouting /\ NoPrompt

Next ==
    \E d \in Disp :
        \/ process_chunks_sync(d)
        \/ submit(d)
        \/ WorkerStart(d)
        \/ \E i \in Tasks(d) : WorkerRun(d, i)
        \/ \E i \in Tasks(d) : WorkerCall(d, i)
        \/ \E i \in Tasks(d) : TimeoutElapses(d, i)
        \/ \E i \in Tasks(d) : WorkerFinish(d, i)
        \/ \E i \in Tasks(d) : AsCompleted(d, i)
        \/ SyncReturn(d)

\* One dispatch on a fresh manager.
Spec == Init /\ [][Next]_vars

InitFair == mode = "fair" /\ Constructed /\ NoAggregation /\ NoRouting /\ NoPrompt

\* The pool threads take queued work items, every LM-worker call returns or
\* raises, and the thread that called process_chunks_sync goes on running.
Progress ==
    /\ WF_vars(submit(1))
    /\ WF_vars(WorkerStart(1))
    /\ \A i \in 1..MaxFairChunks : WF_vars(WorkerRun(1, i))
    /\ \A i \in 1..MaxFairChunks : WF_vars(WorkerCall(1, i))
    /\ \A i \in 1..MaxFairChunks : WF_vars(WorkerFinish(1, i))
    /\ \A i \in 1..MaxFairChunks : WF_vars(AsCompleted(1, i))
    /\ WF_vars(SyncReturn(1))

\* One dispatch on a fresh manager, with progress of its threads and LM calls.
SpecFair == InitFair /\ [][Next]_vars /\ Progress

InitIds == mode = "ids" /\ Constructed /\ NoAggregation /\ NoRouting /\ NoPrompt

\* One dispatch on a fresh manager, over chunks that carry an 'id'.
SpecIds == InitIds /\ [][Next]_vars

\* Two dispatches on one manager that overlap in time, on distinct inputs.
SpecApart == InitApart /\ [][Next]_vars

\* One dispatch on a fresh manager whose LM worker may also return None.
SpecInvalid == InitInvalid /\ [][Next]_vars

\* Two dispatches on one manager, the second after the first has ended.
SpecRerun == InitRerun /\ [][Next]_vars

\* Two dispatches on one manager that overlap in time.
SpecOverlap == InitOverlap /\ [][Next]_vars

\* ------------------------------------------------------------- properties
AllDictChunks(d) == \A i \in 1..Len(chunks[d]) : IsDict(chunks[d][i])

Positions(d) == 1..Len(results[d])

FailedPositions(d) == {k \in Positions(d) : results[d][k].error # None}

\* The tasks of dispatch d whose LM call the worker answers by raising.
RaisedFor(d) ==
    {i \in Tasks(d) :
        \E e \in Known(LmCall(chunk_tasks[d][i])) : e.outcome.kind = "raise"}

\* The tasks of dispatch d whose LM call outlasted the per-task timeout.
Overdue(d) == {i \in Tasks(d) : futures[d][i].overdue}

\* C1: a dispatch over N dict-shaped chunks ends by returning exactly N
\* Results, whatever the number of failing chunks; it ends by raising only
\* when some chunk is no dict.
C1_ResultCompleteness ==
    \A d \in Disp :
        /\ pc[d] = "returned" => Len(results[d]) = Len(chunks[d])
        /\ pc[d] = "raised" => ~AllDictChunks(d)

\* C1 witness: a returned dispatch of more chunks than workers, two of them failed.
C1_Witness ==
    /\ pc[1] = "returned"
    /\ Len(chunks[1]) > max_concurrent
    /\ Cardinality(FailedPositions(1)) = 2
    /\ Len(results[1]) = Len(chunks[1])

IdCount(rs, id) == Cardinality({k \in 1..Len(rs) : rs[k].chunk_id = id})

\* C2: the returned list holds exactly one Result with chunk_id i for every
\* position i in 0..N-1, failed or not, and no Result with any other id
\* (so none with the placeholder id -1).
C2_OneResultPerTask ==
    \A d \in Disp :
        pc[d] = "returned" =>
            /\ \A i \in 0..(Len(chunks[d]) - 1) : IdCount(results[d], i) = 1
            /\ \A k \in Positions(d) : results[d][k].chunk_id \in 0..(Len(chunks[d]) - 1)

\* C2 witness: a returned dispatch with a failed and a successful task.
C2_Witness ==
    /\ pc[1] = "returned"
    /\ FailedPositions(1) # {}
    /\ FailedPositions(1) # Positions(1)
    /\ \A i \in 0..(Len(chunks[1]) - 1) : IdCount(results[1], i) = 1

\* C3: the returned list is in ascending chunk_id order, whatever order the
\* tasks completed in.
C3_OrderPreserved ==
    \A d \in Disp :
        pc[d] = "returned" =>
            \A k \in Positions(d) :
                k < Len(results[d]) => results[d][k].chunk_id <= results[d][k + 1].chunk_id

\* C3 witness: a returned dispatch whose Results had arrived out of id order.
C3_Witness ==
    /\ pc[1] = "returned"
    /\ reordered[1]
    /\ results[1][1].chunk_id = 0
    /\ results[1][Len(results[1])].chunk_id = Len(chunks[1]) - 1

\* C4 (as claimed): at every instant at most max_concurrent LM-worker calls are
\* in flight on behalf of one manager, also when its dispatches overlap.
C4_ManagerBound == InFlightManager <= max_concurrent

\* C5: within one dispatch at most max_concurrent LM-worker calls are in
\* flight, and while max_concurrent threads are busy no waiting task can start.
C5_DispatchBound ==
    \A d \in Disp :
        /\ InFlight(d) <= max_concurrent
        /\ Cardinality(Busy(d)) >= max_concurrent => ~ENABLED WorkerStart(d)

\* C5 witness: more chunks than workers; a task has finished, the pool is
\* full again and a task is still waiting.
C5_Witness ==
    /\ llm_query_fn
    /\ Len(chunks[1]) > max_concurrent
    /\ InFlight(1) = max_concurrent
    /\ Pending(1) # {}
    /\ \E i \in Tasks(1) : futures[1][i].state = "finished"

\* C6 (as claimed): a dispatch never raises to its caller, for every chunk list.
C6_NeverRaises == \A d \in Disp : pc[d] # "raised"

\* What the worker returned for the chunk with id `id` of dispatch d.
WorkerValue(d, id) ==
    (CHOOSE e \in Known(LmCall(chunk_tasks[d][id + 1])) : TRUE).outcome.value

\* C7: when the LM worker raises for exactly the chunks in F, exactly the
\* Results with chunk_id in F have error set and content None, every other
\* Result has error None and the worker's return value as content, and
\* aggregate_results reports chunks_failed = |F|, chunks_processed = N - |F|
\* and errors naming exactly the ids of F.
C7_ErrorIsolation ==
    \A d \in Disp :
        (pc[d] = "returned" /\ llm_query_fn) =>
            LET F   == {i - 1 : i \in RaisedFor(d)}
                agg == aggregate_results(results[d])
            IN  /\ \A k \in Positions(d) :
                      LET r == results[d][k]
                      IN  IF r.chunk_id \in F
                          THEN r.error # None /\ r.content = None
                          ELSE r.error = None /\ r.content = WorkerValue(d, r.chunk_id)
                /\ agg.chunks_failed = Cardinality(F)
                /\ agg.chunks_processed = Len(chunks[d]) - Cardinality(F)
                /\ Len(agg.errors) = Cardinality(F)
                /\ {agg.errors[k].chunk : k \in 1..Len(agg.errors)} = F

\* C7 witness: 3 chunks, the worker raised for id 1 only: processed 2,
\* failed 1, errors = [id 1].
C7_Witness ==
    /\ pc[1] = "returned"
    /\ llm_query_fn
    /\ Len(chunks[1]) = 3
    /\ RaisedFor(1) = {2}
    /\ aggregate_results(results[1]).chunks_processed = 2
    /\ aggregate_results(results[1]).chunks_failed = 1
    /\ aggregate_results(results[1]).errors = <<[chunk |-> 1, error |-> PyStr("boom")]>>

\* C8 (as claimed): when exactly one LM-worker call outlasts the timeout and
\* no other call fails, the returned list holds an error Result for that task
\* and for no other, and chunks_failed = 1.
C8_TimeoutIsolation ==
    \A d \in Disp :
        (pc[d] = "returned" /\ Cardinality(Overdue(d)) = 1 /\ RaisedFor(d) \subseteq Overdue(d)) =>
            /\ aggregate_results(results[d]).chunks_failed = 1
            /\ \A k \in Positions(d) :
                   results[d][k].error # None <=> (results[d][k].chunk_id + 1) \in Overdue(d)

\* A Result without its timing field.
Strip(r) ==
    [chunk_id |-> r.chunk_id, content |-> r.content,
     model_used |-> r.model_used, error |-> r.error]

Stripped(rs) == [k \in 1..Len(rs) |-> Strip(rs[k])]

\* C9: two dispatches on identical chunks and query, answered by a
\* deterministic worker, return the same Result sequence up to
\* processing_time_ms, whatever the interleaving of each.
C9_Determinism ==
    (pc[1] = "returned" /\ pc[2] = "returned"
        /\ chunks[1] = chunks[2] /\ query[1] = query[2]) =>
            Stripped(results[1]) = Stripped(results[2])

\* C9 witness: two returned dispatches of the same arguments whose tasks
\* completed in different orders and took different times.
C9_Witness ==
    /\ pc[1] = "returned" /\ pc[2] = "returned"
    /\ chunks[1] = chunks[2] /\ query[1] = query[2]
    /\ llm_query_fn
    /\ reordered[1] # reordered[2]
    /\ results[1] # results[2]
    /\ RaisedFor(1) # {}

\* The call the LM worker is to receive for chunk i (1-based) of dispatch d.
ExpectedCall(d, i) == LmCall(ChunkTask(i - 1, chunks[d][i], query[d]))

\* How often each call of `expected` occurs among the calls made.
CallCounts(calls, expected) ==
    [i \in 1..Len(expected) |->
        Cardinality({k \in 1..Len(calls) : calls[k] = expected[i]})]

\* C10: with an LM worker configured a dispatch calls it at most once per
\* input chunk and for nothing else, and exactly once per chunk by the time
\* it returns, also for the chunks whose call raised.
C10_NoRetry ==
    \A d \in Disp :
        IF llm_query_fn /\ AllDictChunks(d)
        THEN LET expected == [i \in 1..Len(chunks[d]) |-> ExpectedCall(d, i)]
                 counts   == CallCounts(invoked[d], expected)
             IN  /\ \A k \in 1..Len(invoked[d]) :
                        \E i \in 1..Len(expected) : invoked[d][k] = expected[i]
                 /\ \A i \in 1..Len(expected) : counts[i] <= 1
                 /\ pc[d] = "returned" => \A i \in 1..Len(expected) : counts[i] = 1
        ELSE invoked[d] = <<>>

\* C10 witness: a returned dispatch in which a call raised and every chunk
\* was passed to the worker once.
C10_Witness ==
    /\ pc[1] = "returned"
    /\ llm_query_fn
    /\ RaisedFor(1) # {}
    /\ Len(chunks[1]) >= 2
    /\ Len(invoked[1]) = Len(chunks[1])

\* ------------------------------------------- aggregate_results on its own
\* The (content, error) pairs of the Results a caller may pass: successful
\* with a string (one empty), with a mapping (two with a common key), with None; failed
\* with a message, with the empty message str(ValueError()), and failed but
\* carrying a content.
ResultKinds ==
    {[content |-> PyStr("a"), error |-> None],
     [content |-> PyStr(""), error |-> None],
     [content |-> PyDict(<<[k |-> "k", v |-> PyInt(1)]>>), error |-> None],
     [content |-> PyDict(<<[k |-> "j", v |-> PyInt(3)], [k |-> "k", v |-> PyInt(2)]>>),
      error |-> None],
     [content |-> None, error |-> None],
     [content |-> None, error |-> PyStr("boom")],
     [content |-> None, error |-> PyStr("")],
     [content |-> PyStr("z"), error |-> PyStr("late")]}

\* The chunk ids of a list of n Results: ascending 0..n-1 as a dispatch
\* returns them, or descending.
IdOrders(n) == {[p \in 1..n |-> p - 1], [p \in 1..n |-> n - p]}

\* The Result lists passed to aggregate_results; the Result at position p
\* took p milliseconds.
ResultLists ==
    UNION {{[p \in 1..n |-> Result(ids[p], kinds[p].content, p, "haiku", kinds[p].error)] :
                kinds \in [1..n -> ResultKinds], ids \in IdOrders(n)} :
           n \in 0..MaxResults}

\* reply = manager.aggregate_results(agg_results)
AggregateCall ==
    /\ mode = "aggregate"
    /\ reply = None
    /\ reply' = aggregate_results(agg_results)
    /\ UNCHANGED <<mode, max_concurrent, llm_query_fn, lm, pc, chunks, query,
                   chunk_tasks, futures, results, invoked, slow, reordered,
                   agg_results, reply_parts, batch, routing, prompting, shutdown,
                   late, check_cancel>>

\* The caller cuts the list after position s and aggregates both parts.
AggregateParts ==
    /\ mode = "aggregate"
    /\ reply_parts = None
    /\ \E s \in 0..Len(agg_results) :
         reply_parts' =
            [cut   |-> s,
             left  |-> aggregate_results(SubSeq(agg_results, 1, s)),
             right |-> aggregate_results(SubSeq(agg_results, s + 1, Len(agg_results)))]
    /\ UNCHANGED <<mode, max_concurrent, llm_query_fn, lm, pc, chunks, query,
                   chunk_tasks, futures, results, invoked, slow, reordered,
                   agg_results, reply, batch, routing, prompting, shutdown, late,
                   check_cancel>>

\* ParallelAgentManager() with no LM worker; the caller has a Result list.
InitAggregate ==
    /\ mode = "aggregate"
    /\ Constructed
    /\ max_concurrent = MaxConcurrent
    /\ llm_query_fn = FALSE
    /\ agg_results \in ResultLists
    /\ NoRouting /\ NoPrompt
    /\ reply = None
    /\ reply_parts = None

NextAggregate == AggregateCall \/ AggregateParts

\* aggregate_results applied to any Result list, whole and in two parts.
SpecAggregate == InitAggregate /\ [][NextAggregate]_vars

\* The positions of rs whose Result has its error set / not set.
ErrorAt(rs) == {p \in 1..Len(rs) : rs[p].error # None}

SuccessAt(rs) == {p \in 1..Len(rs) : rs[p].error = None}

\* The k-th smallest element of a set of positions.
Nth(S, k) == CHOOSE p \in S : Cardinality({q \in S : q < p}) = k - 1

\* C11: aggregate_results returns chunks_processed + chunks_failed =
\* len(results), chunks_failed = the number of Results whose error is set, and
\* errors = one entry per such Result, in list order, with its chunk id and error.
C11_Counters ==
    reply # None =>
        LET rs == agg_results
            E  == ErrorAt(rs)
        IN  /\ reply.chunks_processed + reply.chunks_failed = Len(rs)
            /\ reply.chunks_failed = Cardinality(E)
            /\ Len(reply.errors) = Cardinality(E)
            /\ \A k \in 1..Len(reply.errors) :
                   reply.errors[k] = [chunk |-> rs[Nth(E, k)].chunk_id,
                                      error |-> rs[Nth(E, k)].error]

\* C11 witness: a list in descending id order with a successful Result
\* between two failed ones, one of them with the empty error message.
C11_Witness ==
    /\ reply # None
    /\ Len(agg_results) = 3
    /\ ErrorAt(agg_results) = {1, 3}
    /\ agg_results[1].error = PyStr("")
    /\ agg_results[1].chunk_id = 2
    /\ reply.chunks_processed = 1
    /\ reply.chunks_failed = 2
    /\ reply.errors[1].chunk = 2

\* The five fields of the reply.
ReplyFields ==
    {"aggregated", "chunks_processed", "chunks_failed",
     "total_processing_time_ms", "errors"}

\* C12: aggregate_results returns a reply with all five fields for every
\* Result list; when every Result is an error Result the reply has
\* chunks_processed = 0, chunks_failed = N and N entries in errors.
C12_AlwaysReplies ==
    reply # None =>
        /\ DOMAIN reply = ReplyFields
        /\ ErrorAt(agg_results) = 1..Len(agg_results) =>
               /\ reply.chunks_processed = 0
               /\ reply.chunks_failed = Len(agg_results)
               /\ Len(reply.errors) = Len(agg_results)

\* C12 witness: three Results, all failed; the reply has its five fields and
\* an empty aggregated text.
C12_Witness ==
    /\ reply # None
    /\ Len(agg_results) = 3
    /\ ErrorAt(agg_results) = {1, 2, 3}
    /\ DOMAIN reply = ReplyFields
    /\ reply.aggregated = PyStr("")
    /\ reply.chunks_failed = 3
    /\ Len(reply.errors) = 3

\* The block of the Result at position p: its header and its text.
Block(rs, p) == "[Chunk " \o ToString(rs[p].chunk_id) \o "]:\n" \o rs[p].content.s

\* The blocks of the first n successful Results, each but the first preceded
\* by the separator.
RECURSIVE TextOfBlocks(_, _)
TextOfBlocks(rs, n) ==
    IF n = 0 THEN ""
    ELSE IF n = 1 THEN Block(rs, Nth(SuccessAt(rs), 1))
    ELSE TextOfBlocks(rs, n - 1) \o "\n\n" \o Block(rs, Nth(SuccessAt(rs), n))

\* C13: when the content of every successful Result is a string, aggregated
\* is the text made of one block "[Chunk <chunk_id>]:\n<content>" per
\* successful Result, in list order, joined by "\n\n"; failed Results give
\* no block, so there are chunks_processed blocks.
C13_StringRule ==
    (reply # None /\ \A p \in SuccessAt(agg_results) : IsStr(agg_results[p].content)) =>
        /\ reply.chunks_processed = Cardinality(SuccessAt(agg_results))
        /\ reply.aggregated = PyStr(TextOfBlocks(agg_results, reply.chunks_processed))

\* C13 witness: ids 2, 1, 0 with texts "a", failed (carrying a content), "":
\* two blocks, in list order.
C13_Witness ==
    /\ reply # None
    /\ Len(agg_results) = 3
    /\ agg_results[1].chunk_id = 2
    /\ agg_results[2].error # None /\ agg_results[2].content = PyStr("z")
    /\ reply.chunks_processed = 2
    /\ reply.aggregated = PyStr("[Chunk 2]:\na\n\n[Chunk 0]:\n")

\* The successful contents of rs are neither all strings nor all mappings.
FallbackCase(rs) ==
    /\ \E p \in SuccessAt(rs) : ~IsStr(rs[p].content)
    /\ \E p \in SuccessAt(rs) : ~IsDict(rs[p].content)

\* C27: when the successful contents are neither all strings nor all
\* mappings, aggregated is the list of the raw contents of the successful
\* Results, in list order, chunks_processed of them; the content of a failed
\* Result is not in it.
C27_FallbackList ==
    (reply # None /\ FallbackCase(agg_results)) =>
        /\ reply.aggregated.type = "list"
        /\ Len(reply.aggregated.items) = reply.chunks_processed
        /\ reply.chunks_processed = Cardinality(SuccessAt(agg_results))
        /\ \A n \in 1..Len(reply.aggregated.items) :
               reply.aggregated.items[n] = agg_results[Nth(SuccessAt(agg_results), n)].content

\* C27 witness: ids 2, 1, 0 with a mapping, failed (carrying a content) and
\* a string: a list of the mapping and the string.
C27_Witness ==
    /\ reply # None
    /\ Len(agg_results) = 3
    /\ agg_results[1].chunk_id = 2
    /\ IsDict(agg_results[1].content) /\ agg_results[1].error = None
    /\ agg_results[2].error # None /\ agg_results[2].content = PyStr("z")
    /\ agg_results[3].content = PyStr("a") /\ agg_results[3].error = None
    /\ reply.aggregated = PyList(<<agg_results[1].content, PyStr("a")>>)

\* The keys of a dict value.
Keys(d) == {d.items[i].k : i \in 1..Len(d.items)}

\* The successful Results of rs all carry a mapping, and there is one.
MappingCase(rs) ==
    /\ SuccessAt(rs) # {}
    /\ \A p \in SuccessAt(rs) : IsDict(rs[p].content)

\* The positions of the successful Results whose mapping has the key.
Holders(rs, key) == {p \in SuccessAt(rs) : key \in Keys(rs[p].content)}

\* C14 (as claimed): when every successful content is a mapping, aggregated
\* is a mapping over the union of their keys and, for each key, holds the
\* value of the successful Result with the greatest chunk_id that has the key.
C14_GreatestIdWins ==
    (reply # None /\ MappingCase(agg_results)) =>
        LET rs == agg_results
        IN  /\ IsDict(reply.aggregated)
            /\ Keys(reply.aggregated) = UNION {Keys(rs[p].content) : p \in SuccessAt(rs)}
            /\ \A key \in Keys(reply.aggregated) :
                   LET H == Holders(rs, key)
                       w == CHOOSE p \in H : \A q \in H : rs[q].chunk_id <= rs[p].chunk_id
                   IN  DictGet(reply.aggregated, key, None) = DictGet(rs[w].content, key, None)

\* C14 (amended): when some Result is successful and every successful content
\* is a mapping, aggregated is a mapping over the union of their keys and,
\* for each key, holds the value of the last successful Result in list order
\* that has the key.
C14_LastInListWins ==
    (reply # None /\ MappingCase(agg_results)) =>
        LET rs == agg_results
        IN  /\ IsDict(reply.aggregated)
            /\ Keys(reply.aggregated) = UNION {Keys(rs[p].content) : p \in SuccessAt(rs)}
            /\ \A key \in Keys(reply.aggregated) :
                   LET H == Holders(rs, key)
                       w == CHOOSE p \in H : \A q \in H : q <= p
                   IN  DictGet(reply.aggregated, key, None) = DictGet(rs[w].content, key, None)

\* C14 witness: ids 2, 1, 0 carrying {'j': 3, 'k': 2}, a failed Result and
\* {'k': 1}: the merge is {'j': 3, 'k': 1}, k taken from the Result with id 0.
C14_Witness ==
    /\ reply # None
    /\ Len(agg_results) = 3
    /\ agg_results[1].chunk_id = 2
    /\ agg_results[2].error # None
    /\ reply.aggregated = PyDict(<<[k |-> "j", v |-> PyInt(3)], [k |-> "k", v |-> PyInt(1)]>>)

\* aggregate(aggregate(A), aggregate(B)): the two aggregated contents handed
\* to aggregate_results again, as the contents of two successful Results.
Combine(x, y) ==
    aggregate_results(<<Result(0, x, 0, "haiku", None),
                        Result(1, y, 0, "haiku", None)>>).aggregated

\* C15 (as claimed): for every cut of a Result list into A and B, the
\* aggregated content of A ++ B equals the aggregated contents of A and of B
\* combined in that order.
C15_Associative ==
    (reply # None /\ reply_parts # None) =>
        reply.aggregated = Combine(reply_parts.left.aggregated,
                                   reply_parts.right.aggregated)

\* --------------------------------------------------------- model selection
\* C16 (as claimed): every task a dispatch builds for a user query is sent to
\* the LM worker with model "sonnet", and the Results of a returned dispatch
\* record model_used = "sonnet".
C16_QueryUsesSonnet ==
    \A d \in Disp :
        /\ \A k \in 1..Len(invoked[d]) : invoked[d][k].model = "sonnet"
        /\ pc[d] = "returned" =>
               \A k \in Positions(d) : results[d][k].model_used = "sonnet"

\* ------------------------------------------------- invalid worker values
\* The tasks of dispatch d for which the LM worker returned a value that is
\* no string.
ReturnedInvalid(d) ==
    {i \in Tasks(d) :
        \E e \in Known(LmCall(chunk_tasks[d][i])) :
            e.outcome.kind = "return" /\ ~IsStr(e.outcome.value)}

\* C17 (as claimed): when the LM worker returns an invalid value (None) for a
\* chunk, the chunk's Result is an error Result and aggregate_results lists
\* the chunk in errors and counts it in chunks_failed, not in chunks_processed.
C17_InvalidValueFails ==
    \A d \in Disp :
        (pc[d] = "returned" /\ llm_query_fn) =>
            LET agg == aggregate_results(results[d])
                bad == {i - 1 : i \in ReturnedInvalid(d) \cup RaisedFor(d)}
            IN  /\ \A k \in Positions(d) :
                       results[d][k].chunk_id \in bad => results[d][k].error # None
                /\ {agg.errors[k].chunk : k \in 1..Len(agg.errors)} = bad
                /\ agg.chunks_failed = Cardinality(bad)
                /\ agg.chunks_processed = Len(results[d]) - Cardinality(bad)

\* ------------------------------------------------- process_chunks_async
\* _batch_tasks(tasks, batch_size): consecutive slices of batch_size tasks,
\* the last one shorter.
_batch_tasks(tasks, batch_size) ==
    [b \in 1..((Len(tasks) + batch_size - 1) \div batch_size) |->
        SubSeq(tasks, (b - 1) * batch_size + 1,
               IF b * batch_size < Len(tasks) THEN b * batch_size ELSE Len(tasks))]

\* The positions (1-based) in the task list of the tasks of batch b.
BatchPositions(d, b) ==
    {i \in Tasks(d) : (b - 1) * max_concurrent < i /\ i <= b * max_concurrent}

\* str(RuntimeError) of an executor that has been shut down.
ShutdownMessage == "cannot schedule new futures after shutdown"

\* Faulty variant: the asyncio tasks of every batch are created at once.
CreatedAll(futs, positions) ==
    [i \in 1..Len(futs) |->
        IF futs[i].state = "unsubmitted" THEN [futs[i] EXCEPT !.state = "created"]
        ELSE futs[i]]

\* for batch in ...: batch_tasks = [asyncio.create_task(...) for task in
\* batch]: the asyncio tasks of batch b exist; none has run yet.
Created(futs, positions) ==
    [i \in 1..Len(futs) |->
        IF i \in positions THEN [futs[i] EXCEPT !.state = "created"] ELSE futs[i]]

\* Faulty variant: an executor that has been shut down still takes work items.
RunInExecutorAnyway(fut) == [fut EXCEPT !.state = "pending"]

\* loop.run_in_executor(self._executor, self._process_single_chunk, task):
\* the work item is queued, or RuntimeError is raised by an executor that has
\* been shut down and ends the asyncio task.
run_in_executor(fut) ==
    IF shutdown
    THEN [fut EXCEPT !.state = "finished", !.exception = PyStr(ShutdownMessage)]
    ELSE [fut EXCEPT !.state = "pending"]

\* The asyncio tasks of dispatch d the event loop has not run yet.
NotRun(d) == {i \in Tasks(d) : futures[d][i].state = "created"}

\* self._executor, the pool of the manager (max_workers = max_concurrent),
\* has a thread free.
ManagerWorkerFree ==
    Cardinality(Busy(1)) + Cardinality(Busy(2)) < max_concurrent

\* Faulty variant: the results of a batch are appended last task first.
RECURSIVE BatchAppendedBackwards(_, _, _)
BatchAppendedBackwards(rs, futs, positions) ==
    IF positions = {} THEN rs
    ELSE LET i == CHOOSE p \in positions : \A q \in positions : p >= q
         IN  BatchAppendedBackwards(Appended(rs, futs[i]), futs, positions \ {i})

\* for result in batch_results: a Result is appended as it is, an Exception
\* as the placeholder Result; batch_results is in task order.
RECURSIVE BatchAppended(_, _, _)
BatchAppended(rs, futs, positions) ==
    IF positions = {} THEN rs
    ELSE LET i == CHOOSE p \in positions : \A q \in positions : p <= q
         IN  BatchAppended(Appended(rs, futs[i]), futs, positions \ {i})

\* process_chunks_async up to its first await: the task list is built (and
\* raises on a non-dict chunk) and cut into batches; the asyncio tasks of the
\* first batch are created, none has run when the coroutine yields to the
\* event loop at the gather. Without chunks the call returns [] at once.
process_chunks_async(d) ==
    /\ mode \in {"async", "cleanup"}
    /\ late' = [late EXCEPT ![d] = shutdown]
    /\ pc[d] = "idle"
    /\ CallAllowed(d)
    /\ \E args \in Arguments(d) :
       LET cs == args[1]
           q  == args[2]
       IN
         /\ chunks' = [chunks EXCEPT ![d] = cs]
         /\ query' = [query EXCEPT ![d] = q]
         /\ IF BuildRaises(cs)
            THEN /\ pc' = [pc EXCEPT ![d] = "raised"]
                 /\ UNCHANGED <<chunk_tasks, futures, batch>>
            ELSE /\ chunk_tasks' = [chunk_tasks EXCEPT ![d] = BuildTasks(cs, q)]
                 /\ IF _batch_tasks(BuildTasks(cs, q), max_concurrent) = <<>>
                    THEN /\ pc' = [pc EXCEPT ![d] = "returned"]
                         /\ UNCHANGED <<futures, batch>>
                    ELSE /\ pc' = [pc EXCEPT ![d] = "awaiting"]
                         /\ batch' = [batch EXCEPT ![d] = 1]
                         /\ futures' = [futures EXCEPT ![d] =
                               Created([i \in 1..Len(cs) |-> FutureTask],
                                         1..Len(_batch_tasks(BuildTasks(cs, q),
                                                             max_concurrent)[1]))]
    /\ UNCHANGED <<mode, max_concurrent, llm_query_fn, lm, results, invoked, slow,
                   reordered, agg_results, reply, reply_parts, routing, prompting,
                   shutdown, check_cancel>>

\* The event loop runs the asyncio task of chunk i, the oldest it has not
\* run yet (its ready queue is FIFO): _process_chunk_async queues the work
\* item on self._executor, which refuses it once it has been shut down. An
\* asyncio task cancelled before its first run gets CancelledError instead
\* and queues nothing.
_process_chunk_async(d, i) ==
    /\ mode \in {"async", "cleanup"}
    /\ pc[d] \in {"awaiting", "cancelling"}
    /\ i \in NotRun(d)
    /\ \A j \in NotRun(d) : i <= j
    /\ futures' = [futures EXCEPT ![d][i] =
                      IF pc[d] = "cancelling"
                      THEN [@ EXCEPT !.state = "cancelled"]
                      ELSE run_in_executor(@)]
    /\ UNCHANGED <<side, mode, max_concurrent, llm_query_fn, lm, pc, chunks, query,
                   chunk_tasks, results, invoked, slow, reordered>>

\* A thread of self._executor gets the next work item from the queue; the
\* Future is PENDING until the thread runs the item.
AsyncWorkerStart(d) ==
    /\ mode \in {"async", "cleanup"}
    /\ Pending(d) # {}
    /\ ManagerWorkerFree
    /\ futures' = [futures EXCEPT ![d][NextPending(d)].state = "dequeued"]
    /\ UNCHANGED <<side, mode, max_concurrent, llm_query_fn, lm, pc, chunks, query,
                   chunk_tasks, results, invoked, slow, reordered>>

\* await asyncio.gather(*batch_tasks, return_exceptions=True) has every
\* result of the batch: they are appended in task order; the asyncio tasks of
\* the next batch are created (none has run when the coroutine yields again)
\* or, after the last batch, the list is returned.
GatherDone(d) ==
    /\ pc[d] = "awaiting"
    /\ \A i \in BatchPositions(d, batch[d]) : futures[d][i].state = "finished"
    /\ results' = [results EXCEPT ![d] =
                      BatchAppended(@, futures[d], BatchPositions(d, batch[d]))]
    /\ IF BatchPositions(d, batch[d] + 1) = {}
       THEN /\ pc' = [pc EXCEPT ![d] = "returned"]
            /\ futures' = [futures EXCEPT ![d] =
                  [i \in 1..Len(@) |-> [@[i] EXCEPT !.collected = TRUE]]]
            /\ UNCHANGED batch
       ELSE /\ batch' = [batch EXCEPT ![d] = @ + 1]
            /\ futures' = [futures EXCEPT ![d] =
                  Created([i \in 1..Len(@) |->
                                IF i \in BatchPositions(d, batch[d])
                                THEN [@[i] EXCEPT !.collected = TRUE] ELSE @[i]],
                            BatchPositions(d, batch[d] + 1))]
            /\ UNCHANGED pc
    /\ UNCHANGED <<mode, max_concurrent, llm_query_fn, lm, chunks, query,
                   chunk_tasks, invoked, slow, reordered, agg_results, reply,
                   reply_parts, routing, prompting, shutdown, late,
                   check_cancel>>

\* The caller cancels the task that runs process_chunks_async while it
\* awaits a gather (task.cancel()): the gather cancels its children. A child
\* the loop has not run yet is marked and gets CancelledError at its first
\* run; for a child that awaits run_in_executor the loop queues the callback
\* that passes the cancellation on to the executor's Future.
Cancel(d) ==
    /\ pc[d] = "awaiting"
    /\ pc' = [pc EXCEPT ![d] = "cancelling"]
    /\ check_cancel' = [check_cancel EXCEPT ![d] =
          {i \in BatchPositions(d, batch[d]) :
              futures[d][i].state \in {"pending", "dequeued", "taken", "running"}}]
    /\ UNCHANGED <<mode, max_concurrent, llm_query_fn, lm, chunks, query,
                   chunk_tasks, futures, results, invoked, slow, reordered,
                   agg_results, reply, reply_parts, batch, routing, prompting,
                   shutdown, late>>

\* The event loop runs the callback of child i, the oldest it has queued:
\* Future.cancel() of the executor's Future succeeds while the Future is
\* PENDING (the work item is never run, also when a thread already holds it)
\* and fails once a thread runs the item, which then goes on to its end.
_call_check_cancel(d, i) ==
    /\ pc[d] = "cancelling"
    /\ NotRun(d) = {}
    /\ i \in check_cancel[d]
    /\ \A j \in check_cancel[d] : i <= j
    /\ check_cancel' = [check_cancel EXCEPT ![d] = @ \ {i}]
    /\ futures' = [futures EXCEPT ![d][i].state =
                      IF @ \in {"pending", "dequeued"} THEN "cancelled" ELSE @]
    /\ UNCHANGED <<mode, max_concurrent, llm_query_fn, lm, pc, chunks, query,
                   chunk_tasks, results, invoked, slow, reordered,
                   agg_results, reply, reply_parts, batch, routing, prompting,
                   shutdown, late>>

\* Every child of the gather has ended: CancelledError is raised at the
\* await of line 100 and leaves process_chunks_async.
CancelledError(d) ==
    /\ pc[d] = "cancelling"
    /\ NotRun(d) = {}
    /\ check_cancel[d] = {}
    /\ pc' = [pc EXCEPT ![d] = "cancelled"]
    /\ UNCHANGED <<side, mode, max_concurrent, llm_query_fn, lm, chunks, query,
                   chunk_tasks, futures, results, invoked, slow, reordered>>

InitAsync == mode = "async" /\ Constructed /\ NoAggregation /\ NoRouting /\ NoPrompt

NextAsync ==
    \E d \in Disp :
        \/ process_chunks_async(d)
        \/ \E i \in Tasks(d) : _process_chunk_async(d, i)
        \/ AsyncWorkerStart(d)
        \/ \E i \in Tasks(d) : WorkerRun(d, i)
        \/ \E i \in Tasks(d) : WorkerCall(d, i)
        \/ \E i \in Tasks(d) : TimeoutElapses(d, i)
        \/ \E i \in Tasks(d) : WorkerFinish(d, i)
        \/ GatherDone(d)
        \/ Cancel(d)
        \/ \E i \in Tasks(d) : _call_check_cancel(d, i)
        \/ CancelledError(d)

\* One process_chunks_async call on a fresh manager, which the caller may cancel.
SpecAsync == InitAsync /\ [][NextAsync]_vars

\* cleanup(): self._executor.shutdown(wait=False); the work items already
\* queued on the executor are still run, later ones are refused.
cleanup ==
    /\ mode = "cleanup"
    /\ ~shutdown
    /\ shutdown' = TRUE
    /\ UNCHANGED <<mode, max_concurrent, llm_query_fn, lm, pc, chunks, query,
                   chunk_tasks, futures, results, invoked, slow, reordered,
                   agg_results, reply, reply_parts, batch, routing, prompting, late,
                   check_cancel>>

InitCleanup == mode = "cleanup" /\ Constructed /\ NoAggregation /\ NoRouting /\ NoPrompt

NextCleanup ==
    \/ cleanup
    \/ \E d \in Disp :
        \/ process_chunks_async(d)
        \/ \E i \in Tasks(d) : _process_chunk_async(d, i)
        \/ AsyncWorkerStart(d)
        \/ \E i \in Tasks(d) : WorkerRun(d, i)
        \/ \E i \in Tasks(d) : WorkerCall(d, i)
        \/ \E i \in Tasks(d) : TimeoutElapses(d, i)
        \/ \E i \in Tasks(d) : WorkerFinish(d, i)
        \/ GatherDone(d)

\* One process_chunks_async call on a manager whose cleanup() is called
\* before, during or after it, or never.
SpecCleanup == InitCleanup /\ [][NextCleanup]_vars

\* Dispatch d has ended: its call returned or raised.
Ended(d) == pc[d] \in {"returned", "raised", "cancelled"}

\* C18 (as claimed): a dispatch over dict-shaped chunks, cancelled by its
\* caller or not, ends by yielding one Result per chunk; no exception
\* replaces the result list.
C18_CancelKeepsResults ==
    \A d \in Disp :
        (Ended(d) /\ AllDictChunks(d)) =>
            /\ pc[d] = "returned"
            /\ Len(results[d]) = Len(chunks[d])

\* The 'id' field of chunk i (1-based) of dispatch d.
IdOfChunk(d, i) == DictGet(chunks[d][i], "id", None)

\* C26 (as claimed): for every list of chunk dicts carrying an 'id' field,
\* the Result produced from a chunk has chunk_id equal to that chunk's 'id'.
C26_ResultCarriesChunkId ==
    \A d \in Disp :
        (mode = "ids" /\ pc[d] = "returned") =>
            \A i \in Tasks(d) :
                /\ \E k \in 1..Len(results[d]) : results[d][k] = futures[d][i].result
                /\ PyInt(futures[d][i].result.chunk_id) = IdOfChunk(d, i)

\* C29: provided each LM-worker call returns or raises, a process_chunks_sync
\* call over any chunk list and with any max_concurrent returns, and every
\* queued task is started, also with more tasks than threads.
C29_Terminates ==
    /\ (pc[1] \in {"submitting", "collecting"}) ~> (pc[1] = "returned")
    /\ \A i \in 1..MaxFairChunks :
          (i \in Unsubmitted(1) \cup Pending(1)) ~> (i \in Taken(1) \cup Running(1))

\* C29 witness: a dispatch of two chunks on a manager with one thread and
\* an LM worker has returned.
C29_Witness ==
    /\ mode = "fair"
    /\ pc[1] = "returned"
    /\ llm_query_fn
    /\ max_concurrent = 1
    /\ Len(chunks[1]) = 2
    /\ Len(results[1]) = 2

\* C24: at the moment process_chunks_sync returns, every task of the dispatch
\* has been started and has finished and its Result is in the list: no
\* LM-worker call of the dispatch is in flight, none can arrive later.
C24_ReturnsAfterAllSettle ==
    \A d \in Disp :
        pc[d] = "returned" =>
            /\ \A i \in Tasks(d) :
                    futures[d][i].state = "finished" /\ futures[d][i].collected
            /\ Pending(d) = {} /\ Busy(d) = {}
            /\ InFlight(d) = 0
            /\ Len(futures[d]) = Len(chunks[d])
            /\ Len(results[d]) = Len(chunks[d])

\* C24 witness: three chunks queued for a single worker, one call outlasting
\* the timeout; the call returned with all three Results.
C24_Witness ==
    /\ mode = "single"
    /\ pc[1] = "returned"
    /\ llm_query_fn
    /\ max_concurrent = 1
    /\ Len(chunks[1]) = 3
    /\ slow = 1
    /\ Len(invoked[1]) = 3

\* The batch (1-based) of task i (1-based): consecutive slices of
\* max_concurrent tasks.
BatchOf(i) == (i - 1) \div max_concurrent + 1

\* C28: process_chunks_async runs the tasks in consecutive batches of at most
\* max_concurrent tasks; no task of a later batch is created, let alone
\* started, before every task of the batches before it has finished, so at
\* most the tasks of one batch are under way.
C28_BatchBarrier ==
    \A d \in Disp :
        mode = "async" =>
            /\ \A i \in Tasks(d), j \in Tasks(d) :
                  (BatchOf(i) < BatchOf(j) /\ futures[d][j].state # "unsubmitted")
                      => futures[d][i].state = "finished"
            /\ \A i \in NotRun(d) \cup Pending(d) \cup Busy(d) : BatchOf(i) = batch[d]
            /\ Cardinality(NotRun(d) \cup Pending(d) \cup Busy(d)) <= max_concurrent

\* C28 witness: of three chunks on a manager with two workers the first has
\* finished and the second is running; a worker is idle, yet the third task
\* has not been created.
C28_Witness ==
    /\ mode = "async"
    /\ pc[1] = "awaiting"
    /\ max_concurrent = 2
    /\ Len(futures[1]) = 3
    /\ futures[1][1].state = "finished"
    /\ futures[1][2].state = "running"
    /\ futures[1][3].state = "unsubmitted"
    /\ ManagerWorkerFree

\* C30: a process_chunks_async call made after cleanup() never invokes the
\* LM worker and, over dict-shaped chunks, raises nothing and returns one
\* error Result per chunk, each with the placeholder chunk_id -1.
C30_AfterCleanup ==
    \A d \in Disp :
        (mode = "cleanup" /\ late[d]) =>
            /\ invoked[d] = <<>>
            /\ Pending(d) = {} /\ Busy(d) = {}
            /\ (Ended(d) /\ AllDictChunks(d)) =>
                  /\ pc[d] = "returned"
                  /\ Len(results[d]) = Len(chunks[d])
                  /\ \A k \in 1..Len(results[d]) :
                        /\ results[d][k].chunk_id = -1
                        /\ results[d][k].error # None
                        /\ results[d][k].content = None

\* C30 witness: three chunks were dispatched after cleanup() on a manager
\* with an LM worker and two threads; three placeholder Results came back.
C30_Witness ==
    /\ mode = "cleanup"
    /\ late[1]
    /\ pc[1] = "returned"
    /\ llm_query_fn
    /\ max_concurrent = 2
    /\ Len(chunks[1]) = 3
    /\ Len(results[1]) = 3
    /\ results[1][3].chunk_id = -1
    /\ results[1][3].error = PyStr(ShutdownMessage)

\* C23: process_chunks_async returns exactly one Result per chunk, result i
\* carrying chunk_id i (ascending order), for every chunk count, every
\* max_concurrent and every behaviour of the LM worker, without sorting.
C23_AsyncInTaskOrder ==
    \A d \in Disp :
        (mode = "async" /\ pc[d] = "returned") =>
            /\ Len(results[d]) = Len(chunks[d])
            /\ \A k \in 1..Len(results[d]) : results[d][k].chunk_id = k - 1

\* C23 witness: three chunks went through two batches of a manager with two
\* workers; the call for chunk 0 outlasted the one for chunk 1, which failed.
C23_Witness ==
    /\ mode = "async"
    /\ pc[1] = "returned"
    /\ max_concurrent = 2
    /\ Len(results[1]) = 3
    /\ batch[1] = 2
    /\ results[1][1].processing_time_ms > results[1][2].processing_time_ms
    /\ results[1][2].error # None
    /\ results[1][3].error = None

\* ------------------------------------------- independence of dispatches
\* How the LM worker answers the call for chunk i (1-based) of dispatch d.
AnswerFor(d, i) == (CHOOSE e \in Known(ExpectedCall(d, i)) : TRUE).outcome

\* The Result (timing left out) dispatch d gets for its chunk i (1-based)
\* when it runs alone: that of _process_single_chunk on the chunk's task.
AloneResult(d, i) ==
    Strip(_process_single_chunk(ChunkTask(i - 1, chunks[d][i], query[d]),
                                llm_query_fn,
                                IF llm_query_fn THEN AnswerFor(d, i) ELSE None, 0))

\* C19: of two dispatches on distinct inputs that overlap in time on one
\* manager, each returns exactly the Results of its own chunks, in order, as
\* it would alone; while it collects, its list holds Results of its own
\* chunks only.
C19_Independent ==
    \A d \in Disp :
        /\ pc[d] = "returned" =>
               /\ Len(results[d]) = Len(chunks[d])
               /\ \A i \in 1..Len(chunks[d]) : Strip(results[d][i]) = AloneResult(d, i)
        /\ pc[d] = "collecting" =>
               \A k \in Positions(d) :
                   /\ results[d][k].chunk_id + 1 \in 1..Len(chunks[d])
                   /\ futures[d][results[d][k].chunk_id + 1].collected
                   /\ Strip(results[d][k]) = AloneResult(d, results[d][k].chunk_id + 1)

\* C19 witness: both dispatches have returned, the second was called and
\* returned while a call of the first was in flight, and their lists differ.
C19_Witness ==
    /\ pc[1] = "returned" /\ pc[2] = "returned"
    /\ llm_query_fn
    /\ Len(results[1]) = 1 /\ Len(results[2]) = 1
    /\ results[1][1].processing_time_ms > 0
    /\ results[1][1].error = None
    /\ results[2][1].error = None
    /\ Stripped(results[1]) # Stripped(results[2])

\* ------------------------------------------------------ activation router
\* The tags of the closed StrategyTag set; "passthrough" declines activation.
StrategyTags ==
    {"passthrough", "token_chunking", "file_chunking", "structural_decomp",
     "file_parallel"}

DataKinds == {"json", "csv", "log", "code", "text", "binary", "unknown"}

\* The ContextDescriptors: empty and non-empty inputs, of one or more files.
Descriptors ==
    [origin          : {"file-path", "in-memory-content"},
     totalBytes      : {0, 1} \cup {1024 * k : k \in 1..MaxKb},
     estimatedTokens : 0..MaxTokens,
     dataKind        : DataKinds,
     filesCount      : 1..MaxFiles,
     hasStructure    : BOOLEAN]

\* The router configurations.
Configs ==
    [enabled             : BOOLEAN,
     tokenThreshold      : 0..MaxTokens,
     fileSizeKbThreshold : 0..MaxKb,
     fileCountThreshold  : 0..MaxFiles,
     maxConcurrentAgents : 1..MaxConcurrent]

\* The router's reply: (should_activate, strategy, metadata).
Decision(tag, concurrency) ==
    [activate |-> tag # "passthrough", strategy |-> tag, concurrency |-> concurrency]

\* Faulty variant: rule 1 tests `enabled` only.
RouterSkipsEmptyCheck(desc, cfg) ==
    IF ~cfg.enabled
    THEN Decision("passthrough", 0)
    ELSE IF desc.filesCount >= cfg.fileCountThreshold
    THEN Decision("file_parallel",
                  IF desc.filesCount < cfg.maxConcurrentAgents
                  THEN desc.filesCount ELSE cfg.maxConcurrentAgents)
    ELSE IF /\ desc.hasStructure
            /\ desc.dataKind \in {"json", "csv", "log", "code"}
            /\ desc.estimatedTokens >= cfg.tokenThreshold
    THEN Decision("structural_decomp", 0)
    ELSE IF \/ desc.estimatedTokens >= cfg.tokenThreshold
            \/ desc.totalBytes \div 1024 >= cfg.fileSizeKbThreshold
    THEN IF ~desc.hasStructure THEN Decision("token_chunking", 0)
         ELSE IF desc.origin = "file-path" /\ desc.filesCount = 1
         THEN Decision("file_chunking", 0)
         ELSE Decision("passthrough", 0)
    ELSE Decision("passthrough", 0)

\* The decision procedure: the first rule that fires selects the strategy.
should_activate_rlm(desc, cfg) ==
    IF ~cfg.enabled \/ desc.estimatedTokens = 0 \/ desc.totalBytes = 0
    THEN Decision("passthrough", 0)
    ELSE IF desc.filesCount >= cfg.fileCountThreshold
    THEN Decision("file_parallel",
                  IF desc.filesCount < cfg.maxConcurrentAgents
                  THEN desc.filesCount ELSE cfg.maxConcurrentAgents)
    ELSE IF /\ desc.hasStructure
            /\ desc.dataKind \in {"json", "csv", "log", "code"}
            /\ desc.estimatedTokens >= cfg.tokenThreshold
    THEN Decision("structural_decomp", 0)
    ELSE IF \/ desc.estimatedTokens >= cfg.tokenThreshold
            \/ desc.totalBytes \div 1024 >= cfg.fileSizeKbThreshold
    THEN IF ~desc.hasStructure THEN Decision("token_chunking", 0)
         ELSE IF desc.origin = "file-path" /\ desc.filesCount = 1
         THEN Decision("file_chunking", 0)
         ELSE Decision("passthrough", 0)
    ELSE Decision("passthrough", 0)

\* should_activate, strategy, metadata = router.should_activate_rlm(context_data)
Route ==
    /\ mode = "router"
    /\ decision = None
    /\ decision' = should_activate_rlm(descriptor, config)
    /\ UNCHANGED <<mode, max_concurrent, llm_query_fn, lm, pc, chunks, query,
                   chunk_tasks, futures, results, invoked, slow, reordered,
                   agg_results, reply, reply_parts, batch, descriptor, config,
                   requested, strategy_obj, prompting, shutdown, late,
                   check_cancel>>

\* ContextRouter(config) and a descriptor to route.
InitRouter ==
    /\ mode = "router"
    /\ Constructed
    /\ max_concurrent = MaxConcurrent
    /\ llm_query_fn = FALSE
    /\ NoAggregation
    /\ descriptor \in Descriptors
    /\ config \in Configs
    /\ decision = None
    /\ requested = None
    /\ strategy_obj = None
    /\ NoPrompt

NextRouter == Route

\* The router applied to any descriptor under any configuration.
SpecRouter == InitRouter /\ [][NextRouter]_vars

\* The descriptor is of an empty input.
EmptyInput == descriptor.totalBytes = 0 \/ descriptor.estimatedTokens = 0

\* C20: for every descriptor with totalBytes = 0 or estimatedTokens = 0, and
\* for every descriptor when enabled is false, should_activate_rlm declines
\* activation (passthrough), whatever the other fields and the thresholds.
C20_EmptyNeverActivates ==
    (decision # None /\ (EmptyInput \/ ~config.enabled)) =>
        /\ ~decision.activate
        /\ decision.strategy = "passthrough"

\* C20 witness: routing is enabled, the input has bytes but no tokens and
\* meets the file-count, size and token thresholds; the router declines.
C20_Witness ==
    /\ decision # None
    /\ config.enabled
    /\ descriptor.estimatedTokens = 0
    /\ descriptor.totalBytes = 1024
    /\ descriptor.filesCount >= config.fileCountThreshold
    /\ descriptor.totalBytes \div 1024 >= config.fileSizeKbThreshold
    /\ config.tokenThreshold = 0
    /\ ~decision.activate

\* --------------------------------------------------------- strategy lookup
\* The chunk size of the default strategy, in characters.
DefaultChunkSize == 50000

\* The two operations every strategy offers.
StrategyOperations == {"decompose", "aggregate"}

\* The strategy object registered under a tag of the closed set; only the
\* chunking strategies carry a chunk size.
Strategy(tag) ==
    [tag        |-> tag,
     chunk_size |-> IF tag \in {"token_chunking", "file_chunking", "structural_decomp"}
                    THEN DefaultChunkSize ELSE 0,
     operations |-> StrategyOperations]

\* What callers hand to get_strategy: the tags of the closed set, and values
\* outside it (an unknown string, the empty string, None, a number, a mapping).
RequestedTags ==
    {PyStr(t) : t \in StrategyTags}
        \cup {PyStr("nonexistent_strategy"), PyStr(""), None, PyInt(123),
              PyDict(<<[k |-> "invalid", v |-> PyStr("object")]>>)}

\* The requested value names a strategy of the closed set.
KnownTag(tag) == IsStr(tag) /\ tag.s \in StrategyTags

\* Faulty variant: the lookup of an unknown tag raises.
GetStrategyStrict(tag) ==
    IF KnownTag(tag) THEN Strategy(tag.s) ELSE [type |-> "raised", exc |-> "KeyError"]

\* router.get_strategy(tag): the strategy of a known tag, the default
\* strategy (token-chunking with 50 000-character chunks) for anything else.
get_strategy(tag) ==
    IF KnownTag(tag) THEN Strategy(tag.s) ELSE Strategy("token_chunking")

\* strategy_obj = router.get_strategy(requested)
GetStrategy ==
    /\ mode = "strategy"
    /\ strategy_obj = None
    /\ strategy_obj' = get_strategy(requested)
    /\ UNCHANGED <<mode, max_concurrent, llm_query_fn, lm, pc, chunks, query,
                   chunk_tasks, futures, results, invoked, slow, reordered,
                   agg_results, reply, reply_parts, batch, descriptor, config,
                   decision, requested, prompting, shutdown, late,
                   check_cancel>>

\* ContextRouter(config) and a tag to look up.
InitStrategy ==
    /\ mode = "strategy"
    /\ Constructed
    /\ max_concurrent = MaxConcurrent
    /\ llm_query_fn = FALSE
    /\ NoAggregation
    /\ descriptor = None
    /\ config \in Configs
    /\ decision = None
    /\ requested \in RequestedTags
    /\ strategy_obj = None
    /\ NoPrompt

NextStrategy == GetStrategy

\* get_strategy applied to any requested value on any router.
SpecStrategy == InitStrategy /\ [][NextStrategy]_vars

\* C21: for every requested tag outside the closed StrategyTag set (an unknown
\* string, the empty string, None, a number, a mapping) get_strategy returns
\* the default strategy, token-chunking with 50 000-character chunks, which
\* offers both decompose and aggregate.
C21_UnknownTagFallsBack ==
    (strategy_obj # None /\ ~KnownTag(requested)) =>
        /\ "tag" \in DOMAIN strategy_obj
        /\ strategy_obj.tag = "token_chunking"
        /\ strategy_obj.chunk_size = 50000
        /\ {"decompose", "aggregate"} \subseteq strategy_obj.operations

\* C21 witness: a mapping was requested and the default strategy came back.
C21_Witness ==
    /\ IsDict(requested)
    /\ strategy_obj # None
    /\ strategy_obj.tag = "token_chunking"

\* ------------------------------------------------------------ prompt cap
\* How far the payload lengths range around the cap, and the task ids.
MaxExcess == 2

MaxPromptId == 1

\* s * n
RECURSIVE Rep(_, _)
Rep(s, n) ==
    IF n = 0 THEN ""
    ELSE LET h == Rep(s, n \div 2)
         IN  IF n % 2 = 0 THEN h \o h ELSE h \o h \o s

\* A text of n characters whose last character differs from the others.
Text(n) == IF n = 0 THEN "" ELSE Rep("x", n - 1) \o "y"

\* The lengths of the payload texts: empty, short, and around the cap.
PayloadLengths ==
    {0, 1} \cup {PromptCap - e : e \in 0..MaxExcess}
           \cup {PromptCap + e : e \in 0..MaxExcess}

\* task.content: a string, a dict holding one, a number or None.
Payloads ==
    {PyStr(Text(n)) : n \in PayloadLengths}
        \cup {PyDict(<<[k |-> "k", v |-> PyStr(Text(n))]>>) : n \in PayloadLengths}
        \cup {PyInt(7), None}

\* The ChunkTasks handed to _build_prompt.
PromptTasks ==
    [id        : 0..MaxPromptId,
     content   : Payloads,
     task_type : {"query", "analysis"},
     query     : {None, PyStr(""), PyStr("q")},
     metadata  : {PyDict(<<>>)}]

\* prompt = manager._build_prompt(prompt_task)
BuildPrompt ==
    /\ mode = "prompt"
    /\ prompt = None
    /\ prompt' = PyStr(_build_prompt(prompt_task))
    /\ UNCHANGED <<mode, max_concurrent, llm_query_fn, lm, pc, chunks, query,
                   chunk_tasks, futures, results, invoked, slow, reordered,
                   agg_results, reply, reply_parts, batch, routing, prompt_task,
                   shutdown, late,
                   check_cancel>>

\* ParallelAgentManager() and a task to build the prompt of.
InitPrompt ==
    /\ mode = "prompt"
    /\ Constructed
    /\ max_concurrent = MaxConcurrent
    /\ llm_query_fn = FALSE
    /\ NoAggregation
    /\ NoRouting
    /\ prompt_task \in PromptTasks
    /\ prompt = None

NextPrompt == BuildPrompt

\* _build_prompt applied to any task.
SpecPrompt == InitPrompt /\ [][NextPrompt]_vars

\* The lines of a prompt before and after the payload, for a task id and query.
PromptHead(id, q) ==
    IF Truthy(q)
    THEN "Process this chunk of data to answer the following query:\n\nQuery: "
         \o PyStrOf(q) \o "\n\nChunk " \o ToString(id) \o ":\n"
    ELSE "Extract key information from this chunk:\n\nChunk " \o ToString(id) \o ":\n"

PromptFoot(q) ==
    IF Truthy(q)
    THEN "\n\nProvide a concise response focusing only on information relevant to the query."
    ELSE "\n\nProvide a structured summary of the main points."

\* C25: the prompt of a task is the fixed lines for its id and query around
\* the string form of its payload, in full when it has 10 000 characters or
\* fewer and cut to its first 10 000 characters otherwise; nothing else of
\* the task enters the prompt.
C25_PromptCap ==
    prompt # None =>
        LET text  == PyStrOf(prompt_task.content)
            shown == IF Len(text) <= 10000 THEN text ELSE SubSeq(text, 1, 10000)
        IN  prompt.s = PromptHead(prompt_task.id, prompt_task.query) \o shown
                          \o PromptFoot(prompt_task.query)

\* C25 witness: the prompt of a task with a query and a payload of 10 001
\* characters has been built.
C25_Witness ==
    /\ prompt # None
    /\ Truthy(prompt_task.query)
    /\ IsStr(prompt_task.content)
    /\ Len(prompt_task.content.s) = 10001
    /\ Len(prompt.s) = Len(PromptHead(prompt_task.id, prompt_task.query)) + 10000
                          + Len(PromptFoot(prompt_task.query))

====
